---- MODULE Spec2Model ----
(***************************************************************************)
(* State-machine model of the IEPA document summarizer:                    *)
(*   - the streaming orchestrator POST of app/api/process-all/route.ts,    *)
(*   - the shared browser session and the retrieval cascade                *)
(*     downloadDocument of lib/iepa-scraper.ts (v8),                       *)
(*   - text extraction, OCR and summarization of process-all/route.ts.     *)
(* One run of POST is modelled from the arrival of the request to the end  *)
(* of the stream's start() callback.  Every await of the handler is a      *)
(* separate step; the synchronous code between two awaits is one action.   *)
(* The caller may cancel the response stream at any await (handleStop of   *)
(* app/page.tsx aborts the fetch); from then on controller.enqueue throws. *)
(* Spec follows one such run.  SessionSpec follows several concurrent      *)
(* requests through getScraper, init and their calls on the shared page.   *)
(* PdfSpec follows one request of app/api/summarize-pdf/route.ts: the      *)
(* source of the PDF, extractTextFromPdf, performOCR and summarizeWithAI.   *)
(***************************************************************************)
EXTENDS Integers, Sequences, FiniteSets, TLC

\* ---------------------------------------------------------------- bounds
MaxDocs == 3
MaxFacilities == 2
MaxPages == 4
MaxRuns == 2
\* documents of a run that is followed to its end under fairness
MaxLiveDocs == 2
\* calls of getScraper and closeScraper a caller makes one after the other
MaxCalls == 4

\* ------------------------------------------------------ program constants
NativeMinLen == 100
MinTextLen == 50
MinPdfBytes == 500
OcrMaxPages == 15
\* summarize-pdf: word-count threshold of the digital pass, minimum length of the
\* OCR text, page limit of the OCR pass, minimum length of an accepted text
NativeMinWords == 30
OcrMinChars == 100
PdfOcrMaxPages == 20
PdfMinTextLen == 50

\* ------------------------------------------------------------ input sets
Queries == {"", "a", "ACME METALS"}
FacilityIds == {"", "170000123"}
\* The body of a request: unreadable (request.json() throws, no field is read),
\* or an object with the two fields; the one-character query comes alone.
Requests ==
  {req \in [bodyOk : BOOLEAN, query : Queries, facilityId : FacilityIds] :
     /\ ~req.bodyOk => req.query = "" /\ req.facilityId = ""
     /\ req.query = "a" => req.facilityId = ""}

\* A byte buffer is abstracted to its first four bytes and its length.
BufferHeads == {"%PDF", "%!PS", "<htm"}
BufferLens == {400, 2000}
Buffers == [head : BufferHeads, len : BufferLens] \cup {[head |-> "", len |-> 0]}
NoBuffer == [head |-> "", len |-> 0]

\* buffer[0] === 0x25: the first byte is '%'
FirstByteIsPercent(buf) == buf.head \in {"%PDF", "%!PS"}

\* Lengths of the text of the digital layer, and of one OCR'd page.
DigitalLens == {0, 60, 101}
PageLens == {0, 40}

RelevanceFlags == {"Relevant", "Maybe", "Not Relevant"}
\* relevanceFlag values a collaborator reply may carry ("" is a missing field)
ReplyFlags == RelevanceFlags \cup {"relevant", ""}
Findings == {}

Stages == {"search", "documents", "processing", "overview", "complete", "error"}

\* -------------------------------------------------------------- variables
VARIABLES
  pc,          \* position of the run in POST / start()
  request,     \* [bodyOk, query, facilityId]: the request body
  response,    \* HTTP response: "none", "stream", "400", "500"
  channel,     \* the ReadableStream: "none", "open", "closed", "cancelled"
  events,      \* the events enqueued on the stream, in order
  crashed,     \* start() ended by an exception thrown out of its catch block
  instance,    \* scraperInstance: "null", "uninit" (page is null), "ready"
  tabs,        \* viewer pages open in the browser context besides the main page
  viewer,      \* viewerPage of the download in flight: "none", "main", "tab"
  facility,    \* "none", "selected" (caller's id), "found" (first search hit)
  documents,   \* descriptors returned by getFacilityDocuments
  enumerated,  \* getFacilityDocuments has returned its list
  idx,         \* loop variable i of the document loop (0-based)
  summaries,   \* const summaries: DocumentSummary[]
  errors,      \* const errors: string[]
  downloaded,  \* pdfBuffer of the document returned by downloadDocument
  textLen,     \* length of the text returned by extractTextFromPdf
  dlCalls,     \* number of downloadDocument invocations per descriptor
  outcome,     \* per descriptor: what retrieval and extraction returned
  lastReply,   \* the last reply of the summarization collaborator
  overviewCalls, \* the calls of generateFacilityOverview: what each put in its prompt
  emptySearch, \* searchFacilities has returned a list with facilities.length === 0
  pageClosed,  \* close() was called on the session's main page (this.page)
  runs,        \* concurrent POST /api/process-all requests: their use of the session
  browsers,    \* number of browsers chromium.launch has started in this process
  scraper,     \* scraperInstance and the fields of the IEPAScraper it refers or referred to
  client,      \* a caller of getScraper / closeScraper: its position and its finished calls
  upload,      \* the request of POST /api/summarize-pdf
  pdfPc,       \* position of that request in its handler
  pdfBuffer,   \* pdfBuffer of that handler
  extraction,  \* what the digital pass read, and the ExtractionResult
  ocr,         \* performOCR's temporary directory and tesseract worker
  aiReply,     \* the collaborator's reply to summarizeWithAI
  pdfSummary,  \* the DocumentSummary summarizeWithAI returned
  pdfResponse  \* status of the HTTP response: 0 (none yet), 200, 400, 422, 500

\* the state of one run of POST /api/process-all
runVars == <<pc, request, response, channel, events, crashed, tabs, viewer,
             facility, documents, enumerated, idx, summaries, errors, downloaded, textLen,
             dlCalls, outcome, lastReply, overviewCalls, emptySearch, pageClosed>>
\* the state of concurrent requests sharing the scraper instance
sessionVars == <<runs, browsers, scraper, client>>
\* the state of one request of POST /api/summarize-pdf
pdfVars == <<upload, pdfPc, pdfBuffer, extraction, ocr, aiReply, pdfSummary, pdfResponse>>

vars == <<runVars, instance, sessionVars, pdfVars>>

\* ------------------------------------------------------------------ data
\* type: cellTexts[0] || 'Document' and date: date || 'Unknown' of grid row k: the
\* odd rows carry a type cell and a date, the even rows neither, so that two
\* rows of a list of three are declared alike
DeclaredType(k) == IF k % 2 = 1 THEN "Correspondence" ELSE "Document"
DeclaredDate(k) == IF k % 2 = 1 THEN "01/15/2020" ELSE "Unknown"

\* DocumentInfo: rowIndex is 0-based, id is 'slick-' + idx
DocumentInfo(k) ==
  [id |-> k, rowIndex |-> k - 1, type |-> DeclaredType(k), date |-> DeclaredDate(k)]

DocumentList(n) == [k \in 1..n |-> DocumentInfo(k)]

NoSummary == [doc |-> 0, relevanceFlag |-> "", contaminantsOfConcern |-> {},
              impactedMedia |-> {}, error |-> FALSE]

NoResult == [facility |-> "none", overview |-> "", documentsFound |-> 0,
             documentsProcessed |-> 0, summaries |-> <<>>, errors |-> <<>>]

NoReply == [kind |-> "none", relevanceFlag |-> "", contaminants |-> {}, media |-> {}]

\* An event is the object literal handed to sendUpdate; keys is the set of
\* properties the literal has, the other fields hold the values of those
\* properties (and a default for a property the literal lacks).
Event(stage, keys, progress, latest, result) ==
  [stage |-> stage, keys |-> keys, progress |-> progress,
   latestSummary |-> latest, result |-> result]

\* Math.round(((i + 1) / totalDocs) * 100)
Progress(i, totalDocs) == (200 * (i + 1) + totalDocs) \div (2 * totalDocs)

SearchProvidedEvt == Event("search", {"stage", "progress", "message"}, 100, NoSummary, NoResult)
SearchStartEvt == Event("search", {"stage", "progress", "message"}, 0, NoSummary, NoResult)
SearchFoundEvt ==
  Event("search", {"stage", "progress", "message", "facilities"}, 100, NoSummary, NoResult)
NoFacilitiesEvt == Event("error", {"stage", "message"}, 0, NoSummary, NoResult)
DocumentsStartEvt == Event("documents", {"stage", "progress", "message"}, 0, NoSummary, NoResult)
DocumentsFoundEvt ==
  Event("documents", {"stage", "progress", "message", "count"}, 100, NoSummary, NoResult)
ProcessingEvt(i, totalDocs) ==
  Event("processing", {"stage", "progress", "message", "current", "total"},
        Progress(i, totalDocs), NoSummary, NoResult)
\* a per-document event that also carries a (partial) result
CompletedEvtWithResult(i, totalDocs, summary) ==
  Event("processing", {"stage", "progress", "message", "latestSummary", "result"},
        Progress(i, totalDocs), summary,
        [facility |-> "none", overview |-> "", documentsFound |-> totalDocs,
         documentsProcessed |-> i + 1, summaries |-> <<summary>>, errors |-> <<>>])

CompletedEvt(i, totalDocs, summary) ==
  Event("processing", {"stage", "progress", "message", "latestSummary"},
        Progress(i, totalDocs), summary, NoResult)
\* the overview announced under the stage tag of the document loop
OverviewAsProcessingEvt ==
  Event("processing", {"stage", "progress", "message"}, 0, NoSummary, NoResult)

\* sendUpdate({ stage: 'overview', progress: 0, message: 'Generating facility overview...' })
OverviewEvt == Event("overview", {"stage", "progress", "message"}, 0, NoSummary, NoResult)
ErrorEvt == Event("error", {"stage", "message"}, 0, NoSummary, NoResult)

\* the result literal of the zero-document branch
EmptyResult(fac) ==
  [facility |-> fac, overview |-> "No documents found for this facility.",
   documentsFound |-> 0, documentsProcessed |-> 0, summaries |-> <<>>, errors |-> <<>>]
\* the zero-document branch reported as a failure
EmptyAsErrorEvt(fac) == Event("error", {"stage", "message"}, 0, NoSummary, NoResult)

EmptyCompleteEvt(fac) == Event("complete", {"stage", "result"}, 0, NoSummary, EmptyResult(fac))

\* a result that reports every enumerated document as processed
BuildResultAllProcessed(fac, overview, totalDocs, sums, errs) ==
  [facility |-> fac, overview |-> overview, documentsFound |-> totalDocs,
   documentsProcessed |-> totalDocs, summaries |-> sums, errors |-> errs]

\* const result: ProcessingResult = { facility, overview, documentsFound: totalDocs, ... }
BuildResult(fac, overview, totalDocs, sums, errs) ==
  [facility |-> fac, overview |-> overview, documentsFound |-> totalDocs,
   documentsProcessed |-> Len(sums), summaries |-> sums, errors |-> errs]
CompleteEvt(result) == Event("complete", {"stage", "progress", "result"}, 100, NoSummary, result)

\* controller.enqueue(...) appends to the stream; it throws unless the stream is readable
sendUpdate(evs, data) == Append(evs, data)
CanEnqueue == channel = "open"

\* summaries.unshift(summary)
unshiftSummary(sums, summary) == <<summary>> \o sums

\* summaries.push(summary)
pushSummary(sums, summary) == Append(sums, summary)
\* a failure that is logged and not recorded in the error list
dropError(errs, doc, kind) == errs

\* an error string that names the kind of the failure only
pushErrorUnnamed(errs, doc, kind) ==
  Append(errs, [doc |-> doc, kind |-> kind, type |-> "", date |-> ""])

\* errors.push(`...: ${doc.type} (${doc.date})`) for doc = documents[i]: the string
\* is its prefix (kind), the descriptor's type and its date; the field doc is
\* the position of the descriptor, which the string does not hold
pushError(errs, doc, kind) ==
  Append(errs, [doc |-> doc, kind |-> kind,
                type |-> documents[doc].type, date |-> documents[doc].date])

\* relevanceFlag: parsed.relevanceFlag, taken over unchecked
rawFlag(flag) == flag

\* relevanceFlag: [...].includes(parsed.relevanceFlag) ? parsed.relevanceFlag : 'Maybe'
normalizeFlag(flag) == IF flag \in {"Relevant", "Maybe", "Not Relevant"} THEN flag ELSE "Maybe"

\* a summarizer whose catch block returns the placeholder without the error field
summarizeDocumentUnmarked(doc, reply) ==
  IF reply.kind = "json"
  THEN [doc |-> doc, relevanceFlag |-> normalizeFlag(reply.relevanceFlag),
        contaminantsOfConcern |-> reply.contaminants, impactedMedia |-> reply.media,
        error |-> FALSE]
  ELSE [doc |-> doc, relevanceFlag |-> "Maybe", contaminantsOfConcern |-> {},
        impactedMedia |-> {}, error |-> FALSE]

\* summarizeDocument: the value returned for a collaborator reply; the try block
\* covers the call, the empty-content check and JSON.parse, and the catch block
\* returns the placeholder with error: error.message
summarizeDocument(doc, reply) ==
  IF reply.kind = "json"
  THEN [doc |-> doc, relevanceFlag |-> normalizeFlag(reply.relevanceFlag),
        contaminantsOfConcern |-> reply.contaminants, impactedMedia |-> reply.media,
        error |-> FALSE]
  ELSE [doc |-> doc, relevanceFlag |-> "Maybe", contaminantsOfConcern |-> {},
        impactedMedia |-> {}, error |-> TRUE]

\* the replies of the collaborator: a JSON object with a relevanceFlag of flags,
\* contaminants of found and media of impacted, or a failure
RepliesOver(flags, found, impacted) ==
  [kind : {"json"}, relevanceFlag : flags, contaminants : SUBSET found, media : SUBSET impacted]
  \cup [kind : {"serviceError", "empty", "unparseable"}, relevanceFlag : {""},
        contaminants : {{}}, media : {{}}]

Replies == RepliesOver(ReplyFlags, Findings, Findings)

\* the requests that share the process, and a request that has not arrived
Runs == 1..MaxRuns
IdleRun == [pc |-> "idle", byId |-> FALSE, docsLeft |-> 0, fault |-> "none"]

\* no request of POST /api/process-all is being followed in detail
NoRun ==
  /\ pc = "idle"
  /\ request = [bodyOk |-> TRUE, query |-> "", facilityId |-> ""]
  /\ response = "none"
  /\ channel = "none"
  /\ events = <<>>
  /\ crashed = FALSE
  /\ tabs = 0
  /\ viewer = "none"
  /\ facility = "none"
  /\ documents = <<>>
  /\ enumerated = FALSE
  /\ idx = 0
  /\ summaries = <<>>
  /\ errors = <<>>
  /\ downloaded = NoBuffer
  /\ textLen = 0
  /\ dlCalls = [k \in 1..MaxDocs |-> 0]
  /\ outcome = [k \in 1..MaxDocs |-> "pending"]
  /\ lastReply = NoReply
  /\ overviewCalls = <<>>
  /\ emptySearch = FALSE
  /\ pageClosed = FALSE

\* scraperInstance is null and no IEPAScraper was constructed: held is
\* scraperInstance !== null, id numbers the objects in the order of their
\* construction (made so far), browser numbers the browsers in the order of
\* their launch (0: this.browser is null), closed holds the browsers closed
NoScraper ==
  [held |-> FALSE, id |-> 0, made |-> 0, browser |-> 0, context |-> FALSE, page |-> FALSE,
   isInitialized |-> FALSE, closed |-> {}]
\* nobody calls getScraper or closeScraper directly
NoClient ==
  /\ scraper = NoScraper
  /\ client = [pc |-> "idle", before |-> NoScraper, calls |-> <<>>]

\* no request of POST /api/summarize-pdf has arrived
\* words, len: the word count and the length of the digital text; pass: the
\* pass extractTextFromPdf has reached ("threw": pdf-parse threw); method, textLen, confidence: the
\* ExtractionResult; ocrLen: length of performOCR's text; recovered: how many
\* characters of textLen were read off the document
NoExtraction ==
  [words |-> 0, len |-> 0, pass |-> "none", method |-> "none", textLen |-> 0, ocrLen |-> 0,
   recovered |-> 0, confidence |-> FALSE]
NoOcr == [tempDir |-> "none", worker |-> "none"]
NoJson == [type |-> "undefined", truthy |-> FALSE, text |-> ""]
NoPdfSummary == [made |-> FALSE, strings |-> NoJson, lists |-> NoJson, relevanceFlag |-> NoJson]
NoParsed == [kind |-> "none", strings |-> NoJson, lists |-> NoJson, relevanceFlag |-> NoJson]
NoUpload ==
  /\ upload = [contentType |-> "none", bodyOk |-> TRUE, file |-> FALSE, url |-> FALSE]
  /\ pdfPc = "idle"
  /\ pdfBuffer = NoBuffer
  /\ extraction = NoExtraction
  /\ ocr = NoOcr
  /\ aiReply = NoParsed
  /\ pdfSummary = NoPdfSummary
  /\ pdfResponse = 0

\* -------------------------------------------------------------- the run
Init ==
  /\ pc = "request"
  /\ request \in Requests
  /\ response = "none"
  /\ channel = "none"
  /\ events = <<>>
  /\ crashed = FALSE
  /\ instance \in {"null", "uninit", "ready"}
  /\ tabs = 0
  /\ viewer = "none"
  /\ facility = "none"
  /\ documents = <<>>
  /\ enumerated = FALSE
  /\ idx = 0
  /\ summaries = <<>>
  /\ errors = <<>>
  /\ downloaded = NoBuffer
  /\ textLen = 0
  /\ dlCalls = [k \in 1..MaxDocs |-> 0]
  /\ outcome = [k \in 1..MaxDocs |-> "pending"]
  /\ lastReply = NoReply
  /\ overviewCalls = <<>>
  /\ emptySearch = FALSE
  /\ pageClosed = FALSE
  /\ runs = [r \in Runs |-> IdleRun]
  /\ browsers = 0
  /\ NoClient
  /\ NoUpload

\* An exception leaves start(): nothing more is enqueued and nothing is closed.
Crash(evs) ==
  /\ pc' = "done"
  /\ events' = evs
  /\ crashed' = TRUE
  /\ UNCHANGED channel

\* a catch block that reports the failure and leaves the stream open
FailNoClose(evs) ==
  IF CanEnqueue
  THEN /\ pc' = "done"
       /\ events' = sendUpdate(evs, ErrorEvt)
       /\ UNCHANGED <<channel, crashed>>
  ELSE Crash(evs)

\* a catch block that swallows the failure
FailSilently(evs) ==
  /\ pc' = "done"
  /\ events' = evs
  /\ UNCHANGED <<channel, crashed>>

\* catch (error) { sendUpdate({ stage: 'error', message }); controller.close(); }
\* When enqueue throws here the exception leaves start().
Fail(evs) ==
  IF CanEnqueue
  THEN /\ pc' = "done"
       /\ events' = sendUpdate(evs, ErrorEvt)
       /\ channel' = "closed"
       /\ UNCHANGED crashed
  ELSE Crash(evs)

\* The head of the document loop for index i and, past the last document,
\* the overview announcement; evs is what this step has enqueued so far.
NextDocument(i, evs) ==
  /\ idx' = i
  /\ downloaded' = NoBuffer
  /\ textLen' = 0
  /\ IF ~CanEnqueue
     THEN Crash(evs)
     ELSE /\ UNCHANGED <<channel, crashed>>
          /\ IF i < Len(documents)
             THEN /\ events' = sendUpdate(evs, ProcessingEvt(i, Len(documents)))
                  /\ pc' = "download"
             ELSE /\ events' = sendUpdate(evs, OverviewEvt)
                  /\ pc' = "overview"

\* a handler that validates nothing
MissingInputIgnored(req) == FALSE

\* if (!query && !facilityId)
MissingInput(req) == req.query = "" /\ req.facilityId = ""

\* POST up to the first await of start(): body parsing, validation, stream creation
Receive ==
  /\ pc = "request"
  /\ UNCHANGED <<sessionVars, pdfVars>>
  /\ IF ~request.bodyOk
     THEN /\ response' = "500" /\ pc' = "done" /\ UNCHANGED channel
     ELSE IF MissingInput(request)
     THEN /\ response' = "400" /\ pc' = "done" /\ UNCHANGED channel
     ELSE /\ response' = "stream" /\ channel' = "open" /\ pc' = "acquire"
  /\ UNCHANGED <<request, events, crashed, instance, tabs, viewer, facility, documents, enumerated,
                 idx, summaries, errors, downloaded, textLen, dlCalls, outcome, lastReply,
                 overviewCalls, emptySearch, pageClosed>>

\* scraper = await getScraper(), then the code up to the next await
GetScraper ==
  /\ pc = "acquire"
  /\ UNCHANGED <<sessionVars, pdfVars>>
  /\ \E launchOk \in BOOLEAN :
       /\ instance' = IF instance = "null"
                      THEN (IF launchOk THEN "ready" ELSE "uninit")
                      ELSE instance
       /\ IF instance = "null" /\ ~launchOk
          THEN Fail(events) /\ UNCHANGED facility
          ELSE IF ~CanEnqueue
          THEN Crash(events) /\ UNCHANGED facility
          ELSE IF request.facilityId # ""
          THEN /\ facility' = "selected"
               /\ events' = sendUpdate(sendUpdate(events, SearchProvidedEvt), DocumentsStartEvt)
               /\ pc' = "enumerating"
               /\ UNCHANGED <<channel, crashed>>
          ELSE /\ events' = sendUpdate(events, SearchStartEvt)
               /\ pc' = "searching"
               /\ UNCHANGED <<channel, crashed, facility>>
  /\ UNCHANGED <<request, response, tabs, viewer, documents, enumerated, idx, summaries, errors,
                 downloaded, textLen, dlCalls, outcome, lastReply, overviewCalls, emptySearch, pageClosed>>

\* a run that goes on to the enumeration whatever the search returned
NeverEmpty(found) == FALSE

\* if (facilities.length === 0)
NoneFound(found) == found = 0

\* const facilities = await scraper.searchFacilities(query), then up to the next await
SearchReturn ==
  /\ pc = "searching"
  /\ UNCHANGED <<sessionVars, pdfVars>>
  /\ IF instance # "ready"
     THEN Fail(events) /\ UNCHANGED <<facility, emptySearch, pageClosed>>
     ELSE \E throws \in BOOLEAN, found \in 0..MaxFacilities :
            IF throws
            THEN Fail(events) /\ UNCHANGED <<facility, emptySearch, pageClosed>>
            ELSE /\ emptySearch' = (found = 0)
                 /\ IF ~CanEnqueue
                    THEN Crash(events) /\ UNCHANGED facility
                    ELSE IF NoneFound(found)
                    THEN /\ events' = sendUpdate(events, NoFacilitiesEvt)
                         /\ channel' = "closed"
                         /\ pc' = "done"
                         /\ UNCHANGED <<crashed, facility>>
                    ELSE /\ facility' = "found"
                         /\ events' = sendUpdate(sendUpdate(events, SearchFoundEvt),
                                                 DocumentsStartEvt)
                         /\ pc' = "enumerating"
                         /\ UNCHANGED <<channel, crashed>>
  /\ UNCHANGED <<request, response, instance, tabs, viewer, documents, enumerated, idx, summaries,
                 errors, downloaded, textLen, dlCalls, outcome, lastReply, overviewCalls,
                 pageClosed>>

\* const documents = await scraper.getFacilityDocuments(facility.id), then up to the next await
EnumerateReturn ==
  /\ pc = "enumerating"
  /\ UNCHANGED <<sessionVars, pdfVars>>
  /\ IF instance # "ready"
     THEN Fail(events) /\ UNCHANGED <<documents, enumerated, idx>>
     ELSE \E throws \in BOOLEAN, n \in 0..MaxDocs :
            IF throws
            THEN Fail(events) /\ UNCHANGED <<documents, enumerated, idx>>
            ELSE /\ documents' = DocumentList(n)
                 /\ enumerated' = TRUE
                 /\ IF ~CanEnqueue
                    THEN Crash(events) /\ UNCHANGED idx
                    ELSE IF n = 0
                    THEN /\ events' = sendUpdate(sendUpdate(events, DocumentsFoundEvt),
                                                 EmptyCompleteEvt(facility))
                         /\ channel' = "closed"
                         /\ pc' = "done"
                         /\ UNCHANGED <<crashed, idx>>
                    ELSE /\ idx' = 0
                         /\ events' = sendUpdate(sendUpdate(events, DocumentsFoundEvt),
                                                 ProcessingEvt(0, n))
                         /\ pc' = "download"
                         /\ UNCHANGED <<channel, crashed>>
  /\ UNCHANGED <<request, response, instance, tabs, viewer, facility, summaries, errors,
                 downloaded, textLen, dlCalls, outcome, lastReply, overviewCalls, emptySearch, pageClosed>>

\* ------------------------------------------------- the document loop body
\* catch (docError) { errors.push(`Error processing ...`) }, then the next iteration
DocThrows(result) ==
  /\ errors' = pushError(errors, idx + 1, "exception")
  /\ outcome' = [outcome EXCEPT ![idx + 1] = result]
  /\ NextDocument(idx + 1, events)

\* a failed retrieval that ends the run with a failure event
ReturnNullAbort ==
  /\ errors' = pushError(errors, idx + 1, "download")
  /\ outcome' = [outcome EXCEPT ![idx + 1] = "retrievalFailed"]
  /\ viewer' = "none"
  /\ idx' = idx
  /\ downloaded' = NoBuffer
  /\ textLen' = 0
  /\ Fail(events)

\* a retrieval whose failure leaves downloadDocument as an exception
ReturnThrows ==
  /\ viewer' = "none"
  /\ DocThrows("retrievalFailed")

\* downloadDocument returned null: errors.push(`Could not download ...`); continue
ReturnNull ==
  /\ errors' = pushError(errors, idx + 1, "download")
  /\ outcome' = [outcome EXCEPT ![idx + 1] = "retrievalFailed"]
  /\ viewer' = "none"
  /\ NextDocument(idx + 1, events)

\* a loop that starts the next retrieval without awaiting the extraction and the
\* summary of the document just retrieved
ReturnDocNoWait(buffer) ==
  /\ downloaded' = buffer
  /\ viewer' = "none"
  /\ IF idx + 1 < Len(documents)
     THEN pc' = "download" /\ idx' = idx + 1
     ELSE pc' = "extract" /\ UNCHANGED idx
  /\ UNCHANGED <<events, channel, crashed, errors, outcome, textLen>>

\* downloadDocument returned { ...doc, pdfBuffer: buffer, filename }
ReturnDoc(buffer) ==
  /\ downloaded' = buffer
  /\ viewer' = "none"
  /\ pc' = "extract"
  /\ UNCHANGED <<events, channel, crashed, idx, errors, outcome, textLen>>

\* await viewerPage.close(), whatever page the viewer is
CloseViewerAlways ==
  /\ tabs' = IF viewer = "tab" THEN tabs - 1 ELSE tabs
  /\ pageClosed' = (pageClosed \/ viewer = "main")

\* if (viewerPage !== this.page) await viewerPage.close()
CloseViewer ==
  /\ tabs' = IF viewer = "tab" THEN tabs - 1 ELSE tabs
  /\ UNCHANGED pageClosed

\* the validation of a fetched buffer: buffer.length > 500 && buffer[0] === 0x25
ValidPdfBuffer(buffer) == buffer.len > MinPdfBytes /\ FirstByteIsPercent(buffer)

\* the download-button strategy returns the file it read without a validation
AcceptDownload(buffer) == TRUE

FetchOutcomes == [ok : {TRUE}, buffer : Buffers] \cup {[ok |-> FALSE, buffer |-> NoBuffer]}

\* downloadDocument: the initialization guard, the row selection and the double-click
DlOpen ==
  /\ pc = "download"
  /\ UNCHANGED <<sessionVars, pdfVars>>
  /\ dlCalls' = [dlCalls EXCEPT ![idx + 1] = @ + 1]
  /\ IF instance # "ready"
     THEN /\ DocThrows("retrievalFailed")
          /\ UNCHANGED <<tabs, viewer>>
     ELSE \E step \in {"throws", "outOfRange", "throwsAfterOpen", "sameTab", "newTab"} :
            CASE step \in {"throws", "outOfRange"} ->
                   ReturnNull /\ UNCHANGED tabs
              [] step = "throwsAfterOpen" ->
                   ReturnNull /\ tabs' = tabs + 1
              [] step = "sameTab" ->
                   /\ viewer' = IF tabs > 0 THEN "tab" ELSE "main"
                   /\ pc' = "dlSource"
                   /\ UNCHANGED <<tabs, events, channel, crashed, idx, errors, outcome,
                                  downloaded, textLen>>
              [] step = "newTab" ->
                   /\ tabs' = tabs + 1
                   /\ viewer' = "tab"
                   /\ pc' = "dlSource"
                   /\ UNCHANGED <<events, channel, crashed, idx, errors, outcome, downloaded,
                                  textLen>>
  /\ lastReply' = NoReply
  /\ UNCHANGED <<request, response, instance, facility, documents, enumerated, summaries,
                 overviewCalls, emptySearch, pageClosed>>

\* downloadDocument, method 1: find a PDF source in the viewer and fetch it
DlSource ==
  /\ pc = "dlSource"
  /\ UNCHANGED <<sessionVars, pdfVars>>
  /\ \/ \* viewerPage.evaluate throws: the outer catch returns null
        ReturnNull /\ UNCHANGED <<tabs, pageClosed>>
     \/ \* a source was found and fetched, and the buffer passes the validation
        \E fetched \in FetchOutcomes :
          /\ fetched.ok /\ ValidPdfBuffer(fetched.buffer)
          /\ ReturnDoc(fetched.buffer) /\ CloseViewer
     \/ \* no source, or the fetch throws, or the buffer fails the validation
        /\ pc' = "dlButton"
        /\ UNCHANGED <<tabs, pageClosed, viewer, events, channel, crashed, idx, errors, outcome,
                       downloaded, textLen>>
  /\ UNCHANGED <<request, response, instance, facility, documents, enumerated, summaries, dlCalls,
                 lastReply, overviewCalls, emptySearch>>

\* downloadDocument, method 2: click the download button and read the downloaded
\* file; then the cleanup and the final return null
DlButton ==
  /\ pc = "dlButton"
  /\ UNCHANGED <<sessionVars, pdfVars>>
  /\ \/ \* viewerPage.$ throws: the outer catch returns null
        ReturnNull /\ UNCHANGED <<tabs, pageClosed>>
     \/ \* the button was found and the download was read
        \E download \in FetchOutcomes :
          /\ download.ok /\ AcceptDownload(download.buffer)
          /\ ReturnDoc(download.buffer) /\ CloseViewer
     \/ \* no button, or the download failed: cleanup, return null
        ReturnNull /\ CloseViewer
  /\ UNCHANGED <<request, response, instance, facility, documents, enumerated, summaries, dlCalls,
                 lastReply, overviewCalls, emptySearch>>

\* number of decimal digits of a page number
Digits(n) == IF n < 10 THEN 1 ELSE 2

\* length of `\n--- Page ${i + 1} ---\n${data.text}` for page k (1-based) with text length n
PageChunkLen(k, n) == 10 + Digits(k) + 5 + n

RECURSIVE AllTextLen(_, _)
\* length of allText after the loop over the first k pages
AllTextLen(pages, k) ==
  IF k = 0 THEN 0 ELSE AllTextLen(pages, k - 1) + PageChunkLen(k, pages[k])

Min(a, b) == IF a < b THEN a ELSE b

\* performOCR: the length of allText.trim() for the recognized page texts; trim()
\* removes the leading newline and, after an empty last page, the trailing one
performOCR(pages) ==
  LET maxPages == Min(Len(pages), OcrMaxPages)
      raw == AllTextLen(pages, maxPages)
  IN  raw - 1 - (IF pages[maxPages] = 0 THEN 1 ELSE 0)

\* the recognized texts of the pages of one document: every page of a document
\* yields a text of the same length
PageTexts == {[k \in 1..p |-> n] : p \in 1..MaxPages, n \in PageLens}

\* if (!text || text.length < 50)
TooShort(n) == n < MinTextLen

\* the code after `const text = await extractTextFromPdf(...)` returned a text of length n
GotText(n) ==
  IF TooShort(n)
  THEN /\ errors' = pushError(errors, idx + 1, "notext")
       /\ outcome' = [outcome EXCEPT ![idx + 1] = "extractionFailed"]
       /\ NextDocument(idx + 1, events)
  ELSE /\ textLen' = n
       /\ outcome' = [outcome EXCEPT ![idx + 1] = "ok"]
       /\ pc' = "summarize"
       /\ UNCHANGED <<events, channel, crashed, idx, errors, downloaded>>

\* extractTextFromPdf: pdf-parse, then OCR when the digital text is at most 100 long
Extract ==
  /\ pc = "extract"
  /\ UNCHANGED <<sessionVars, pdfVars>>
  /\ \E parseThrows \in BOOLEAN, digital \in DigitalLens :
       IF parseThrows
       THEN DocThrows("extractionFailed")
       ELSE IF digital > NativeMinLen
       THEN GotText(digital)
       ELSE \E ocrThrows \in BOOLEAN, pages \in PageTexts :
              IF ocrThrows
              THEN DocThrows("extractionFailed")
              ELSE GotText(performOCR(pages))
  /\ UNCHANGED <<request, response, instance, tabs, viewer, facility, documents, enumerated, summaries,
                 dlCalls, lastReply, overviewCalls, emptySearch, pageClosed>>

\* const summary = await summarizeDocument(text, doc); summaries.push(summary);
\* sendUpdate({ ..., latestSummary: summary }) inside the per-document try
SummarizeWith(reply) ==
  /\ pc = "summarize"
  /\ UNCHANGED <<sessionVars, pdfVars>>
  /\ LET summary == summarizeDocument(idx + 1, reply) IN
       /\ lastReply' = reply
       /\ summaries' = pushSummary(summaries, summary)
       /\ IF CanEnqueue
          THEN /\ NextDocument(idx + 1,
                    sendUpdate(events, CompletedEvt(idx, Len(documents), summary)))
               /\ UNCHANGED errors
          ELSE /\ errors' = pushError(errors, idx + 1, "exception")
               /\ NextDocument(idx + 1, events)
  /\ UNCHANGED <<request, response, instance, tabs, viewer, facility, documents, enumerated, dlCalls,
                 outcome, overviewCalls, emptySearch, pageClosed>>

Summarize == \E reply \in Replies : SummarizeWith(reply)

\* generateFacilityOverview: the collaborator's text, or a fixed text on an empty
\* reply, or the locally built sentence when the call throws
Overviews == {"generated", "generation failed", "fallback"}

\* summaries.filter((s) => s.relevanceFlag === 'Relevant')
RelevantOf(sums) == {i \in 1..Len(sums) : sums[i].relevanceFlag = "Relevant"}

\* a prompt that lists the findings of every summary
OverviewInputOfAll(sums) ==
  [reviewed |-> Len(sums),
   relevant |-> Cardinality(RelevantOf(sums)),
   contaminants |-> UNION {sums[i].contaminantsOfConcern : i \in 1..Len(sums)},
   media |-> UNION {sums[i].impactedMedia : i \in 1..Len(sums)}]

\* generateFacilityOverview: what the prompt is built from; [...new Set(
\* relevant.flatMap(...))] holds every element once
OverviewInput(sums) ==
  [reviewed |-> Len(sums),
   relevant |-> Cardinality(RelevantOf(sums)),
   contaminants |-> UNION {sums[i].contaminantsOfConcern : i \in RelevantOf(sums)},
   media |-> UNION {sums[i].impactedMedia : i \in RelevantOf(sums)}]

\* const overview = await generateFacilityOverview(...); sendUpdate({ stage: 'complete', ... })
Overview ==
  /\ pc = "overview"
  /\ UNCHANGED <<sessionVars, pdfVars>>
  /\ \E overview \in Overviews :
       /\ overviewCalls' = Append(overviewCalls, [input |-> OverviewInput(summaries),
                                                  returned |-> overview])
       /\ IF CanEnqueue
          THEN /\ events' = sendUpdate(events,
                    CompleteEvt(BuildResult(facility, overview, Len(documents), summaries, errors)))
               /\ channel' = "closed"
               /\ pc' = "done"
               /\ UNCHANGED crashed
          ELSE Crash(events)
  /\ lastReply' = NoReply
  /\ UNCHANGED <<request, response, instance, tabs, viewer, facility, documents, enumerated, idx,
                 summaries, errors, downloaded, textLen, dlCalls, outcome, emptySearch, pageClosed>>

\* the caller aborts the fetch while the run is suspended at an await
Cancel ==
  /\ channel = "open"
  /\ UNCHANGED <<sessionVars, pdfVars>>
  /\ pc # "done"
  /\ channel' = "cancelled"
  /\ UNCHANGED <<pc, request, response, events, crashed, instance, tabs, viewer, facility,
                 documents, enumerated, idx, summaries, errors, downloaded, textLen, dlCalls, outcome,
                 lastReply, overviewCalls, emptySearch, pageClosed>>

Next ==
  \/ Receive
  \/ GetScraper
  \/ SearchReturn
  \/ EnumerateReturn
  \/ DlOpen
  \/ DlSource
  \/ DlButton
  \/ Extract
  \/ Summarize
  \/ Overview
  \/ Cancel

Spec == Init /\ [][Next]_vars

\* ------------------------------------------------------ a run to its end
\* The steps of the run itself, as opposed to the caller's.  Every one of them
\* is the return of an awaited operation (or the synchronous start of POST), and
\* an awaited operation completes, fails or times out: a step of the run that
\* is possible is eventually taken.  The caller need never cancel.
RunStep ==
  \/ Receive
  \/ GetScraper
  \/ SearchReturn
  \/ EnumerateReturn
  \/ DlOpen
  \/ DlSource
  \/ DlButton
  \/ Extract
  \/ Summarize
  \/ Overview

\* the runs followed to their end: a readable request with a query or a
\* facility id, and at most MaxLiveDocs enumerated documents
LiveRequests ==
  {req \in Requests : req.bodyOk /\ req.query # "a" /\ (req.query = "") # (req.facilityId = "")}

LiveInit == Init /\ request \in LiveRequests

LiveNext ==
  \/ Receive
  \/ GetScraper
  \/ SearchReturn
  \/ EnumerateReturn /\ Len(documents') <= MaxLiveDocs
  \/ DlOpen
  \/ DlSource
  \/ DlButton
  \/ Extract
  \/ Summarize
  \/ Overview
  \/ Cancel

LiveSpec == LiveInit /\ [][LiveNext]_vars /\ WF_vars(RunStep)

\* ------------------------------------------------- a run with findings
\* The same run with a collaborator that reports findings: a contaminant and an
\* impacted medium, either of which a reply may or may not list, for documents
\* it flags Relevant or Maybe.
FoundContaminants == {"BTEX"}
FoundMedia == {"soil"}
FindingsReplies == RepliesOver({"Relevant", "Maybe"}, FoundContaminants, FoundMedia)

FindingsInit == Init /\ request \in LiveRequests

FindingsNext ==
  \/ Receive
  \/ GetScraper
  \/ SearchReturn
  \/ EnumerateReturn /\ Len(documents') <= MaxLiveDocs
  \/ DlOpen
  \/ DlSource
  \/ DlButton
  \/ Extract
  \/ (\E reply \in FindingsReplies : SummarizeWith(reply))
  \/ Overview
  \/ Cancel

FindingsSpec == FindingsInit /\ [][FindingsNext]_vars

\* ------------------------------------------ concurrent requests, one session
\* Several POST requests are served by the same process and share
\* scraperInstance.  A request is followed through getScraper, init and its
\* calls on the session's page; what it does with the documents off the page
\* is one step.  pc of a request: "idle", "launch" / "newContext" / "newPage"
\* (awaiting that step of init), "searching" / "enumerating" / "downloading"
\* (an operation of this request is in flight on the page), "processing"
\* (extraction and summarization of the downloaded document), "done".

\* the phases in which a request has an operation in flight on the session's page
PagePhases == {"searching", "enumerating", "downloading"}

SessionInit ==
  /\ NoRun
  /\ instance = "null"
  /\ runs \in [Runs -> [pc : {"idle"}, byId : BOOLEAN, docsLeft : {0}, fault : {"none"}]]
  /\ browsers = 0
  /\ NoClient
  /\ NoUpload

\* the outer catch of POST: the request ends with a failure event
RunFails(r, fault) ==
  runs' = [runs EXCEPT ![r].pc = "done", ![r].fault = fault]

\* the first call on the scraper that getScraper returned: searchFacilities, or
\* getFacilityDocuments when the caller supplied a facility id; both begin with
\* if (!this.page) throw new Error('Not initialized')
FirstCall(r, inst) ==
  IF inst # "ready"
  THEN RunFails(r, "Not initialized")
  ELSE runs' = [runs EXCEPT ![r].pc = IF runs[r].byId THEN "enumerating" ELSE "searching"]

\* getScraper up to its first await: if (!scraperInstance) { scraperInstance = new
\* IEPAScraper(); await scraperInstance.init() }; return scraperInstance
GetScraperCall(r) ==
  /\ runs[r].pc = "idle"
  /\ IF instance = "null"
     THEN /\ instance' = "uninit"
          /\ runs' = [runs EXCEPT ![r].pc = "launch"]
     ELSE /\ FirstCall(r, instance)
          /\ UNCHANGED instance
  /\ UNCHANGED <<runVars, pdfVars, browsers, scraper, client>>

\* init: this.browser = await chromium.launch(...)
InitLaunch(r) ==
  /\ runs[r].pc = "launch"
  /\ \E ok \in BOOLEAN :
       IF ok
       THEN /\ browsers' = browsers + 1
            /\ runs' = [runs EXCEPT ![r].pc = "newContext"]
       ELSE /\ RunFails(r, "automation")
            /\ UNCHANGED browsers
  /\ UNCHANGED <<runVars, pdfVars, instance, scraper, client>>

\* init: this.context = await this.browser.newContext(...)
InitNewContext(r) ==
  /\ runs[r].pc = "newContext"
  /\ \E ok \in BOOLEAN :
       IF ok
       THEN runs' = [runs EXCEPT ![r].pc = "newPage"]
       ELSE RunFails(r, "automation")
  /\ UNCHANGED <<runVars, pdfVars, instance, browsers, scraper, client>>

\* init: this.page = await this.context.newPage(); this.isInitialized = true;
\* then getScraper returns and the request makes its first call
InitNewPage(r) ==
  /\ runs[r].pc = "newPage"
  /\ \E ok \in BOOLEAN :
       IF ok
       THEN /\ instance' = "ready"
            /\ FirstCall(r, "ready")
       ELSE /\ RunFails(r, "automation")
            /\ UNCHANGED instance
  /\ UNCHANGED <<runVars, pdfVars, browsers, scraper, client>>

\* searchFacilities returns or throws; with a facility, getFacilityDocuments is called
SearchFacilities(r) ==
  /\ runs[r].pc = "searching"
  /\ \E throws \in BOOLEAN, found \in 0..MaxFacilities :
       IF throws
       THEN RunFails(r, "automation")
       ELSE IF found = 0
       THEN RunFails(r, "No facilities found")
       ELSE runs' = [runs EXCEPT ![r].pc = "enumerating"]
  /\ UNCHANGED <<runVars, pdfVars, instance, browsers, scraper, client>>

\* getFacilityDocuments returns or throws; with documents, downloadDocument is called
GetFacilityDocuments(r) ==
  /\ runs[r].pc = "enumerating"
  /\ \E throws \in BOOLEAN, n \in 0..MaxDocs :
       IF throws
       THEN RunFails(r, "automation")
       ELSE IF n = 0
       THEN runs' = [runs EXCEPT ![r].pc = "done"]
       ELSE runs' = [runs EXCEPT ![r].pc = "downloading", ![r].docsLeft = n]
  /\ UNCHANGED <<runVars, pdfVars, instance, browsers, scraper, client>>

\* downloadDocument returns a document or null
DownloadDocument(r) ==
  /\ runs[r].pc = "downloading"
  /\ runs' = [runs EXCEPT ![r].pc = "processing"]
  /\ UNCHANGED <<runVars, pdfVars, instance, browsers, scraper, client>>

\* extraction and summarization of the document, then the next iteration of the
\* loop or, past the last document, the overview and the end of the request
ProcessDocument(r) ==
  /\ runs[r].pc = "processing"
  /\ runs' = [runs EXCEPT ![r].docsLeft = @ - 1,
                          ![r].pc = IF runs[r].docsLeft > 1 THEN "downloading" ELSE "done"]
  /\ UNCHANGED <<runVars, pdfVars, instance, browsers, scraper, client>>

SessionNext ==
  \E r \in Runs :
    \/ GetScraperCall(r)
    \/ InitLaunch(r)
    \/ InitNewContext(r)
    \/ InitNewPage(r)
    \/ SearchFacilities(r)
    \/ GetFacilityDocuments(r)
    \/ DownloadDocument(r)
    \/ ProcessDocument(r)

SessionSpec == SessionInit /\ [][SessionNext]_vars

\* ------------------------------------------- getScraper and closeScraper
\* One caller uses the two exported functions of lib/iepa-scraper.ts one call
\* after the other: a call is made when the previous one has returned or
\* thrown.  Every await of getScraper, init, closeScraper and close is a step.
\* client.before is the module's state when the call in flight was made, and
\* client.calls holds for every finished call what it was, whether it returned
\* (ok) or threw, and the module's state before and after it.

\* scraperInstance as the run of POST sees it
InstanceOf(s) == IF ~s.held THEN "null" ELSE IF s.page THEN "ready" ELSE "uninit"

\* the call op returns (ok) or throws, leaving the module in state s
Returns(op, ok, s) ==
  /\ scraper' = s
  /\ instance' = InstanceOf(s)
  /\ client' = [pc |-> "idle", before |-> s,
                calls |-> Append(client.calls,
                                 [op |-> op, ok |-> ok, before |-> client.before, after |-> s])]

\* a step inside a call: the module is in state s and the call waits at pc
Awaits(at, s) ==
  /\ scraper' = s
  /\ instance' = InstanceOf(s)
  /\ client' = [client EXCEPT !.pc = at]

\* scraperInstance = new IEPAScraper()
NewScraper(s) ==
  [held |-> TRUE, id |-> s.made + 1, made |-> s.made + 1, browser |-> 0, context |-> FALSE,
   page |-> FALSE, isInitialized |-> FALSE, closed |-> s.closed]

\* getScraper: if (!scraperInstance) { scraperInstance = new IEPAScraper(); await
\* scraperInstance.init() }; return scraperInstance
CallGetScraper ==
  /\ client.pc = "idle"
  /\ Len(client.calls) < MaxCalls
  /\ IF ~scraper.held
     THEN Awaits("launch", NewScraper(scraper))
     ELSE Returns("get", TRUE, scraper)
  /\ UNCHANGED <<runVars, pdfVars, runs, browsers>>

\* init: this.browser = await chromium.launch(...)
ClientLaunch ==
  /\ client.pc = "launch"
  /\ \E ok \in BOOLEAN :
       IF ok
       THEN /\ browsers' = browsers + 1
            /\ Awaits("newContext", [scraper EXCEPT !.browser = browsers + 1])
       ELSE /\ Returns("get", FALSE, scraper)
            /\ UNCHANGED browsers
  /\ UNCHANGED <<runVars, pdfVars, runs>>

\* init: this.context = await this.browser.newContext(...)
ClientNewContext ==
  /\ client.pc = "newContext"
  /\ \E ok \in BOOLEAN :
       IF ok
       THEN Awaits("newPage", [scraper EXCEPT !.context = TRUE])
       ELSE Returns("get", FALSE, scraper)
  /\ UNCHANGED <<runVars, pdfVars, runs, browsers>>

\* init: this.page = await this.context.newPage(); this.isInitialized = true;
\* getScraper returns scraperInstance
ClientNewPage ==
  /\ client.pc = "newPage"
  /\ \E ok \in BOOLEAN :
       IF ok
       THEN Returns("get", TRUE, [scraper EXCEPT !.page = TRUE, !.isInitialized = TRUE])
       ELSE Returns("get", FALSE, scraper)
  /\ UNCHANGED <<runVars, pdfVars, runs, browsers>>

\* a closeScraper that keeps the instance it closed
KeepInstance(s) == s

\* closeScraper: scraperInstance = null
DropInstance(s) == [s EXCEPT !.held = FALSE]

\* close after browser.close() returned: this.browser = null; this.context = null;
\* this.page = null; this.isInitialized = false
ClearFields(s) ==
  [s EXCEPT !.closed = @ \cup {s.browser}, !.browser = 0, !.context = FALSE, !.page = FALSE,
            !.isInitialized = FALSE]

\* closeScraper: if (scraperInstance) { await scraperInstance.close(); ... } and
\* close: if (this.browser) { await this.browser.close(); ... }
CallCloseScraper ==
  /\ client.pc = "idle"
  /\ Len(client.calls) < MaxCalls
  /\ IF ~scraper.held
     THEN Returns("close", TRUE, scraper)
     ELSE IF scraper.browser # 0
     THEN Awaits("closing", scraper)
     ELSE Returns("close", TRUE, DropInstance(scraper))
  /\ UNCHANGED <<runVars, pdfVars, runs, browsers>>

\* await this.browser.close() returns or throws
ClientBrowserClose ==
  /\ client.pc = "closing"
  /\ \E ok \in BOOLEAN :
       IF ok
       THEN Returns("close", TRUE, DropInstance(ClearFields(scraper)))
       ELSE Returns("close", FALSE, scraper)
  /\ UNCHANGED <<runVars, pdfVars, runs, browsers>>

ClientInit ==
  /\ NoRun
  /\ instance = "null"
  /\ runs = [r \in Runs |-> IdleRun]
  /\ browsers = 0
  /\ NoClient
  /\ NoUpload

ClientNext ==
  \/ CallGetScraper
  \/ ClientLaunch
  \/ ClientNewContext
  \/ ClientNewPage
  \/ CallCloseScraper
  \/ ClientBrowserClose

ClientSpec == ClientInit /\ [][ClientNext]_vars

\* ------------------------------------------------- POST /api/summarize-pdf
\* One request of the upload endpoint, from its arrival to its HTTP response.

\* A JSON value as JSON.parse yields it: its type, its truthiness and, for a
\* string, its text.
Json(type, truthy, text) == [type |-> type, truthy |-> truthy, text |-> text]
Str(text) == Json("string", text # "", text)
\* the values tried for a string field, for a list field and for relevanceFlag
StringValues ==
  {Json("undefined", FALSE, ""), Json("null", FALSE, ""), Json("number", TRUE, ""),
   Str(""), Str("text")}
ListValues == {Json("undefined", FALSE, ""), Json("array", TRUE, ""), Str("text")}
FlagValues ==
  {Json("undefined", FALSE, ""), Json("number", TRUE, ""), Str("Relevant"), Str("relevant")}

\* What the collaborator call produced.  kind "object": content parsed to an
\* object whose six string fields (documentId, date, type, siteContext,
\* keyActions, fullSummary) all hold the value strings, whose two list fields
\* hold the value lists, and whose relevanceFlag is as given; "primitive":
\* content parsed to a number, string, boolean or array; "null": content
\* parsed to null; else the call threw, the content was empty or unparseable.
PdfReplies ==
  [kind : {"object"}, strings : StringValues, lists : ListValues, relevanceFlag : FlagValues]
  \cup {[kind |-> k, strings |-> NoJson, lists |-> NoJson, relevanceFlag |-> NoJson] :
          k \in {"primitive", "null", "serviceError", "empty", "unparseable"}}

\* parsed.field || default
OrDefault(value, default) == IF value.truthy THEN value ELSE Str(default)

\* Array.isArray(parsed.field) ? parsed.field : []
ArrayOrEmpty(value) == IF value.type = "array" THEN value ELSE Json("array", TRUE, "")

\* ['Relevant', 'Maybe', 'Not Relevant'].includes(parsed.relevanceFlag) ? ... : 'Maybe'
FlagOrMaybe(value) ==
  IF value.type = "string" /\ value.text \in {"Relevant", "Maybe", "Not Relevant"}
  THEN value
  ELSE Str("Maybe")

\* summarizeWithAI: the DocumentSummary returned for a reply; reading a property
\* of null throws inside the try, and the catch returns the placeholder
summarizeWithAI(reply) ==
  IF reply.kind \in {"object", "primitive"}
  THEN [made |-> TRUE,
        strings |-> OrDefault(reply.strings, "default"),
        lists |-> ArrayOrEmpty(reply.lists),
        relevanceFlag |-> FlagOrMaybe(reply.relevanceFlag)]
  ELSE [made |-> TRUE,
        strings |-> Str("Error"),
        lists |-> Json("array", TRUE, ""),
        relevanceFlag |-> Str("Maybe")]

\* The text of the digital layer after the clean-up: words tokens longer than two
\* characters, each tokenLen long, and shorts one-character tokens, separated by
\* single white-space characters.
DigitalTexts == [words : {0, 12, 30, 31}, shorts : {0, 40}, tokenLen : {3, 8}]
DigitalLen(text) ==
  text.words * text.tokenLen + text.shorts
    + (IF text.words + text.shorts > 0 THEN text.words + text.shorts - 1 ELSE 0)

\* cleanText.split(/\s+/).filter(w => w.length > 2).length
wordCount(text) == text.words

\* a digital pass that always hands the document to OCR
NativeNeverSuffices(count) == FALSE

\* if (wordCount > 30)
NativeSuffices(count) == count > NativeMinWords

\* length of `\n\n--- Page ${i + 1} ---\n${data.text}` for page k with text length n
PdfPageChunkLen(k, n) == 11 + Digits(k) + 5 + n

\* data.text of one recognized page: chars characters of text followed by blank
\* white-space characters (line ends, spaces)
BlankLens == {0, 90}
PdfPageTexts ==
  {[k \in 1..p |-> [chars |-> n, blank |-> b]] : p \in 1..MaxPages, n \in PageLens, b \in BlankLens}
PdfPageLen(page) == page.chars + page.blank

RECURSIVE PdfAllTextLen(_, _)
PdfAllTextLen(pages, k) ==
  IF k = 0 THEN 0 ELSE PdfAllTextLen(pages, k - 1) + PdfPageChunkLen(k, PdfPageLen(pages[k]))

RECURSIVE RecognizedChars(_, _)
\* the characters of text recognized on the first k pages
RecognizedChars(pages, k) ==
  IF k = 0 THEN 0 ELSE RecognizedChars(pages, k - 1) + pages[k].chars

\* allText.trim(): without the two leading newlines, without the white space that
\* ends the last page and, when that page has no text, without the newline that
\* ends its marker
PdfTrimmedLen(pages, k) ==
  PdfAllTextLen(pages, k) - 2 - pages[k].blank - (IF pages[k].chars = 0 THEN 1 ELSE 0)

\* if (allText.length < 100) throw new Error('OCR produced insufficient text')
OcrInsufficient(pages, k) == PdfAllTextLen(pages, k) < OcrMinChars

\* an OCR result without the confidence score
OcrResultNoConfidence(ex, pages, k) ==
  [ex EXCEPT !.method = "ocr", !.textLen = PdfTrimmedLen(pages, k),
             !.ocrLen = PdfTrimmedLen(pages, k), !.recovered = RecognizedChars(pages, k)]

\* return { text: allText.trim(), method: 'ocr', pages: numPages,
\*          confidence: totalConfidence / maxPages }
OcrResult(ex, pages, k) ==
  [ex EXCEPT !.method = "ocr", !.textLen = PdfTrimmedLen(pages, k),
             !.ocrLen = PdfTrimmedLen(pages, k), !.recovered = RecognizedChars(pages, k),
             !.confidence = TRUE]

Uploads == [contentType : {"multipart", "json", "other"}, bodyOk : BOOLEAN,
            file : BOOLEAN, url : BOOLEAN]
PdfBuffers == [head : BufferHeads, len : {2000}]

PdfInit ==
  /\ NoRun
  /\ instance = "null"
  /\ runs = [r \in Runs |-> IdleRun]
  /\ browsers = 0
  /\ NoClient
  /\ upload \in Uploads
  /\ pdfPc = "request"
  /\ pdfBuffer = NoBuffer
  /\ extraction = NoExtraction
  /\ ocr = NoOcr
  /\ aiReply = NoParsed
  /\ pdfSummary = NoPdfSummary
  /\ pdfResponse = 0

\* return NextResponse.json(..., { status })
Respond(status) ==
  /\ pdfResponse' = status
  /\ pdfPc' = "done"

\* POST: the body is read and the source of the PDF is chosen
PdfReceive ==
  /\ pdfPc = "request"
  /\ IF upload.contentType = "other"
     THEN Respond(400) /\ UNCHANGED pdfBuffer
     ELSE IF ~upload.bodyOk
     THEN Respond(500) /\ UNCHANGED pdfBuffer
     ELSE IF upload.contentType = "multipart" /\ upload.file
     THEN \E bytes \in PdfBuffers :
            /\ pdfBuffer' = bytes
            /\ pdfPc' = "parse"
            /\ UNCHANGED pdfResponse
     ELSE IF upload.url
     THEN /\ pdfPc' = "fetch"
          /\ UNCHANGED <<pdfBuffer, pdfResponse>>
     ELSE Respond(400) /\ UNCHANGED pdfBuffer
  /\ UNCHANGED <<runVars, instance, sessionVars, upload, extraction, ocr, aiReply, pdfSummary>>

\* const response = await fetch(url, ...); the multipart path verifies the header
PdfFetch ==
  /\ pdfPc = "fetch"
  /\ \E result \in {"throws", "notOk", "ok"}, bytes \in PdfBuffers :
       IF result = "throws"
       THEN Respond(500) /\ UNCHANGED pdfBuffer
       ELSE IF result = "notOk"
       THEN Respond(400) /\ UNCHANGED pdfBuffer
       ELSE /\ pdfBuffer' = bytes
            /\ IF upload.contentType = "multipart" /\ bytes.head # "%PDF"
               THEN Respond(400)
               ELSE pdfPc' = "parse" /\ UNCHANGED pdfResponse
  /\ UNCHANGED <<runVars, instance, sessionVars, upload, extraction, ocr, aiReply, pdfSummary>>

\* a handler that summarizes whatever text the extraction returned
ExtractedUnchecked(ex) ==
  /\ extraction' = ex
  /\ pdfPc' = "summarize" /\ UNCHANGED pdfResponse

\* POST after extractTextFromPdf returned ex: if (!extraction.text || extraction.text.length < 50)
Extracted(ex) ==
  /\ extraction' = ex
  /\ IF ex.textLen < PdfMinTextLen
     THEN Respond(422)
     ELSE pdfPc' = "summarize" /\ UNCHANGED pdfResponse

\* extractTextFromPdf: pdf-parse, the clean-up and the word count
PdfExtract ==
  /\ pdfPc = "parse"
  /\ \E parseThrows \in BOOLEAN, text \in DigitalTexts :
       IF parseThrows
       THEN \* catch (error) { throw new Error(`PDF extraction failed: ...`) }
            /\ extraction' = [extraction EXCEPT !.pass = "threw"]
            /\ Respond(500)
       ELSE IF NativeSuffices(wordCount(text))
       THEN Extracted([words |-> wordCount(text), len |-> DigitalLen(text), pass |-> "digital",
                       method |-> "native", textLen |-> DigitalLen(text), ocrLen |-> 0,
                       recovered |-> DigitalLen(text), confidence |-> FALSE])
       ELSE /\ extraction' = [words |-> wordCount(text), len |-> DigitalLen(text),
                              pass |-> "ocr", method |-> "none", textLen |-> 0, ocrLen |-> 0,
                              recovered |-> 0, confidence |-> FALSE]
            /\ pdfPc' = "ocr"
            /\ UNCHANGED pdfResponse
  /\ UNCHANGED <<runVars, instance, sessionVars, upload, pdfBuffer, ocr, aiReply, pdfSummary>>

\* performOCR; every exception becomes 'OCR failed', then 'PDF extraction failed',
\* and POST answers 500
PdfOcr ==
  /\ pdfPc = "ocr"
  /\ \/ \* mkdtempSync or writeFileSync throws, before the inner try
        \E made \in {"none", "exists"} :
          /\ ocr' = [tempDir |-> made, worker |-> "none"]
          /\ Respond(500) /\ UNCHANGED extraction
     \/ \* pdftoppm is missing or fails, or no image was produced, or createWorker throws
        /\ ocr' = [tempDir |-> "removed", worker |-> "none"]
        /\ Respond(500) /\ UNCHANGED extraction
     \/ \* worker.recognize or worker.terminate throws
        /\ ocr' = [tempDir |-> "removed", worker |-> "running"]
        /\ Respond(500) /\ UNCHANGED extraction
     \/ \* every page was recognized
        \E pages \in PdfPageTexts :
          LET maxPages == Min(Len(pages), PdfOcrMaxPages) IN
            /\ ocr' = [tempDir |-> "removed", worker |-> "terminated"]
            /\ IF OcrInsufficient(pages, maxPages)
               THEN Respond(500) /\ UNCHANGED extraction
               ELSE Extracted(OcrResult(extraction, pages, maxPages))
  /\ UNCHANGED <<runVars, instance, sessionVars, upload, pdfBuffer, aiReply, pdfSummary>>

\* const summary = await summarizeWithAI(...); return NextResponse.json({ success: true, ... })
PdfSummarize ==
  /\ pdfPc = "summarize"
  /\ \E reply \in PdfReplies :
       /\ aiReply' = reply
       /\ pdfSummary' = summarizeWithAI(reply)
  /\ Respond(200)
  /\ UNCHANGED <<runVars, instance, sessionVars, upload, pdfBuffer, extraction, ocr>>

PdfNext ==
  \/ PdfReceive
  \/ PdfFetch
  \/ PdfExtract
  \/ PdfOcr
  \/ PdfSummarize

PdfSpec == PdfInit /\ [][PdfNext]_vars

\* ------------------------------------------------- the two endpoints
\* One request arrives at one of the two endpoints of the process: a request of
\* POST /api/process-all (unreadable, without query and facility id, or with a
\* query) or a request of POST /api/summarize-pdf.
ApiRequests == {req \in Requests : req.facilityId = "" /\ req.query # "a"}

ApiInit ==
  \/ Init /\ request \in ApiRequests
  \/ PdfInit

ApiNext ==
  \/ Next
  \/ PdfNext

ApiSpec == ApiInit /\ [][ApiNext]_vars

\* ------------------------------------------------------------ properties
HasSummary(d) == \E i \in 1..Len(summaries) : summaries[i].doc = d
HasError(d) == \E i \in 1..Len(errors) : errors[i].doc = d

TerminalStages == {"complete", "error"}
Terminals == {i \in 1..Len(events) : events[i].stage \in TerminalStages}
Successes == {i \in 1..Len(events) : events[i].stage = "complete"}
Failures == {i \in 1..Len(events) : events[i].stage = "error"}
EndsWithSuccess == Len(events) > 0 /\ events[Len(events)].stage = "complete"

Succeeded == {d \in 1..Len(documents) : outcome[d] = "ok"}
Failed == {d \in 1..Len(documents) : outcome[d] \in {"retrievalFailed", "extractionFailed"}}

\* the caller cancelled the stream and the run ended on the exception of enqueue
EndedByCancel == pc = "done" /\ crashed /\ channel = "cancelled"

\* C1: every descriptor whose loop iteration is over has exactly one of a
\* summary or a recorded error, whatever retrieval, extraction, summarization
\* and the emission of progress events did: the two lists together have one
\* entry per finished descriptor and no descriptor is in both.
C1_ExactlyOneOfSummaryOrError ==
  /\ Len(summaries) + Len(errors) = idx
  /\ \A d \in 1..Len(documents) : ~(HasSummary(d) /\ HasError(d))
  /\ \A d \in 1..idx : HasSummary(d) \/ HasError(d)

\* C2: a buffer that downloadDocument returned as a document begins with the
\* PDF magic header.
C2_ReturnedBufferIsPdf ==
  pc \in {"extract", "summarize"} => downloaded.head = "%PDF"

\* C3: in the terminal result documentsFound is the number of enumerated
\* descriptors, documentsProcessed is the number of summaries, which is the
\* number of descriptors retrieved and extracted, and the number of errors is
\* the number of descriptors whose retrieval or extraction failed.
C3_TerminalCounts ==
  \A i \in Successes :
    LET r == events[i].result IN
      /\ r.documentsFound = Len(documents)
      /\ r.documentsProcessed = Len(r.summaries)
      /\ Len(r.summaries) = Cardinality(Succeeded)
      /\ Len(r.errors) = Cardinality(Failed)

C3_Witness ==
  /\ EndsWithSuccess
  /\ Len(documents) = 3
  /\ Cardinality(Succeeded) = 2
  /\ \E d \in 1..3 : outcome[d] = "retrievalFailed"
  /\ events[Len(events)].result.documentsProcessed = 2
  /\ Len(events[Len(events)].result.errors) = 1

\* C4: the summaries of the terminal result are in the order of the
\* enumerated descriptors.
C4_SummariesInEnumerationOrder ==
  \A i \in Successes :
    LET sums == events[i].result.summaries IN
      \A a, b \in 1..Len(sums) : a < b => sums[a].doc < sums[b].doc

C4_Witness ==
  /\ EndsWithSuccess
  /\ Len(events[Len(events)].result.summaries) >= 2
  /\ Len(events[Len(events)].result.errors) >= 1

\* C5 as stated: once enumeration has returned zero documents, the finished
\* run ended with a success event carrying the empty result.
C5_ZeroDocumentsEndWithSuccess ==
  (enumerated /\ Len(documents) = 0 /\ pc = "done") =>
    /\ EndsWithSuccess
    /\ events[Len(events)].result = EmptyResult(facility)
    /\ channel = "closed"

\* C5 amended: once enumeration has returned zero documents, no failure event
\* is emitted and nothing is retrieved, extracted or summarized; the finished
\* run ended with a success event carrying the empty result (0 found, 0
\* processed, no summaries, no errors, the placeholder overview), unless the
\* caller cancelled the stream before the events could be emitted.
C5_ZeroDocumentsNeverFail ==
  (enumerated /\ Len(documents) = 0) =>
    /\ Failures = {}
    /\ \A d \in 1..MaxDocs : dlCalls[d] = 0
    /\ summaries = <<>> /\ errors = <<>>
    /\ pc \in {"enumerating", "done"}
    /\ pc = "done" =>
         \/ EndedByCancel
         \/ /\ EndsWithSuccess
            /\ events[Len(events)].result = EmptyResult(facility)
            /\ events[Len(events)].result.documentsFound = 0
            /\ events[Len(events)].result.documentsProcessed = 0
            /\ events[Len(events)].result.summaries = <<>>
            /\ events[Len(events)].result.errors = <<>>
            /\ channel = "closed"

C5_Witness ==
  /\ enumerated /\ Len(documents) = 0 /\ pc = "done"
  /\ EndsWithSuccess
  /\ events[Len(events)].result.overview = "No documents found for this facility."

\* relevantCount, maybeCount, notRelevantCount of the page
CountFlag(sums, flag) == Cardinality({i \in 1..Len(sums) : sums[i].relevanceFlag = flag})

\* C6: every summary appended to the result has one of the three relevance
\* values, so the three counts add up to the number of summaries.
C6_RelevancePartition ==
  /\ \A i \in 1..Len(summaries) : summaries[i].relevanceFlag \in RelevanceFlags
  /\ CountFlag(summaries, "Relevant") + CountFlag(summaries, "Maybe")
       + CountFlag(summaries, "Not Relevant") = Len(summaries)

C6_Witness ==
  /\ lastReply.kind = "json"
  /\ lastReply.relevanceFlag \notin RelevanceFlags
  /\ Len(summaries) >= 2
  /\ summaries[Len(summaries)].relevanceFlag = "Maybe"
  /\ \E i \in 1..Len(summaries) : summaries[i].error

\* C7 as stated: a finished run whose stream was opened has emitted exactly
\* one terminal event, as its last event, and the channel is closed.
C7_ExactlyOneTerminalEvent ==
  (pc = "done" /\ response = "stream") =>
    /\ Cardinality(Terminals) = 1
    /\ events[Len(events)].stage \in TerminalStages
    /\ channel = "closed"

\* C7 amended: a run emits at most one terminal event; that event is the last
\* event, the channel is closed by the run exactly when it has been emitted,
\* and a finished run has emitted it unless the caller cancelled the stream,
\* in which case no terminal event is emitted at all.
C7_TerminalEventIsLast ==
  /\ Cardinality(Terminals) <= 1
  /\ \A i \in Terminals : i = Len(events) /\ channel = "closed" /\ pc = "done"
  /\ channel = "closed" => Terminals # {}
  /\ (pc = "done" /\ response = "stream") =>
       \/ Cardinality(Terminals) = 1
       \/ EndedByCancel /\ Terminals = {}

C7_Witness ==
  /\ pc = "done" /\ response = "stream"
  /\ Failures # {} /\ channel = "closed"
  /\ Len(events) >= 3

\* C8: every event has a stage of the fixed set, a progress value in 0..100
\* and a message.
C8_EveryEventHasStageProgressMessage ==
  \A i \in 1..Len(events) :
    /\ {"stage", "progress", "message"} \subseteq events[i].keys
    /\ events[i].stage \in Stages
    /\ events[i].progress \in 0..100

\* C9: only the terminal success event carries a result, and the result it
\* carries is the complete one: the facility, an overview, the number of
\* enumerated documents, all summaries and all errors.
C9_ResultOnlyOnTerminalSuccess ==
  \A i \in 1..Len(events) :
    /\ "result" \in events[i].keys => events[i].stage = "complete" /\ i = Len(events)
    /\ events[i].stage = "complete" =>
         /\ "result" \in events[i].keys
         /\ events[i].result.facility = facility
         /\ events[i].result.overview # ""
         /\ events[i].result.documentsFound = Len(documents)
         /\ events[i].result.documentsProcessed = Len(summaries)
         /\ events[i].result.summaries = summaries
         /\ events[i].result.errors = errors

C9_Witness ==
  /\ EndsWithSuccess
  /\ Len(summaries) >= 1 /\ Len(errors) >= 1
  /\ \E i \in 1..(Len(events) - 1) : "latestSummary" \in events[i].keys

\* C10 as stated: no descriptor is downloaded twice, and a finished run in
\* which a retrieval or an extraction failed has processed every descriptor
\* and ended with a success event.
C10_FailureNeverAborts ==
  /\ \A d \in 1..MaxDocs : dlCalls[d] <= 1
  /\ (pc = "done" /\ Failed # {}) =>
       /\ EndsWithSuccess
       /\ \A d \in 1..Len(documents) : dlCalls[d] = 1

\* C10 amended: no descriptor is downloaded twice and no failure event is
\* emitted once the document loop has started; a finished run in which a
\* retrieval or an extraction failed has downloaded every descriptor exactly
\* once and ended with a success event, unless the caller cancelled the stream.
C10_FailureNeverAbortsUnlessCancelled ==
  /\ \A d \in 1..MaxDocs : dlCalls[d] <= 1
  /\ Len(documents) > 0 => Failures = {}
  /\ (pc = "done" /\ Failed # {}) =>
       \/ EndedByCancel
       \/ /\ EndsWithSuccess
          /\ \A d \in 1..Len(documents) : dlCalls[d] = 1

C10_Witness ==
  /\ pc = "done" /\ EndsWithSuccess
  /\ Len(documents) >= 3
  /\ outcome[1] = "retrievalFailed"
  /\ outcome[2] = "extractionFailed"
  /\ outcome[3] = "ok"

\* the three ways the summarization call fails
FailureKinds == {"serviceError", "empty", "unparseable"}

\* C11 as stated: when the summarization call failed, the summarizer returned
\* the placeholder with the error marker, the placeholder is the last summary
\* of the result, no failure event is emitted and the run is at the next
\* descriptor (or, past the last one, at the overview).
C11_SummarizerFailureContinues ==
  lastReply.kind \in FailureKinds =>
    /\ Len(summaries) > 0
    /\ summaries[Len(summaries)].doc = idx
    /\ summaries[Len(summaries)].error
    /\ summaries[Len(summaries)].relevanceFlag = "Maybe"
    /\ Failures = {}
    /\ pc \in {"download", "overview"}

\* C11 amended: when the summarization call failed, the summarizer returned the
\* placeholder with the error marker, the placeholder is the last summary of
\* the result, no failure event is emitted, and the run is at the next
\* descriptor (or at the overview) unless the caller cancelled the stream.
C11_SummarizerFailureAbsorbed ==
  lastReply.kind \in FailureKinds =>
    /\ Len(summaries) > 0
    /\ summaries[Len(summaries)].doc = idx
    /\ summaries[Len(summaries)].error
    /\ summaries[Len(summaries)].relevanceFlag = "Maybe"
    /\ Failures = {}
    /\ pc \in {"download", "overview"} \/ EndedByCancel

C11_Witness ==
  /\ lastReply.kind = "unparseable"
  /\ pc = "download"
  /\ idx = 2
  /\ errors = <<>>
  /\ Len(summaries) = 2
  /\ summaries[1].error /\ summaries[2].error

\* documents whose summary in sums is the summarizer's error placeholder
Placeholders(sums) == {sums[k].doc : k \in {j \in 1..Len(sums) : sums[j].error}}
\* documents that have an entry in the error list errs
InErrors(errs) == {errs[j].doc : j \in 1..Len(errs)}

\* C13 as stated: in the terminal result every document whose retrieval or
\* extraction failed, or whose summarization call failed, has an entry in the
\* errors list.
C13_AllFaultsInErrorList ==
  \A i \in Successes :
    LET r == events[i].result IN
      Failed \cup Placeholders(r.summaries) \subseteq InErrors(r.errors)

\* C13 amended: in the terminal result every document whose retrieval or
\* extraction failed has exactly one entry in the errors list and no summary;
\* a document whose summarization call failed has no entry in the errors list:
\* it is recorded as a placeholder summary carrying the error marker.
C13_FaultsAreRecorded ==
  \A i \in Successes :
    LET r == events[i].result IN
      /\ InErrors(r.errors) = Failed
      /\ Len(r.errors) = Cardinality(Failed)
      /\ \A k \in 1..Len(r.summaries) : r.summaries[k].doc \notin Failed
      /\ Placeholders(r.summaries) \cap InErrors(r.errors) = {}

C13_Witness ==
  /\ EndsWithSuccess
  /\ outcome[1] = "retrievalFailed"
  /\ outcome[2] = "extractionFailed"
  /\ outcome[3] = "ok"
  /\ Placeholders(events[Len(events)].result.summaries) = {3}
  /\ InErrors(events[Len(events)].result.errors) = {1, 2}

\* C16: when a run has ended with a failure event after an automation error
\* (the enumeration of the resolved facility threw), the session has been
\* reset: no scraper instance is left for the next run to reuse.
C16_FailureResetsSession ==
  (pc = "done" /\ facility # "none" /\ Failures # {}) => instance = "null"

\* C17: whenever no download is in flight, every viewer tab a download opened
\* has been closed: the browser context holds only the main page.
C17_ViewerTabsClosed ==
  pc \notin {"dlSource", "dlButton"} => tabs = 0

\* C18: on an initialized session a failed retrieval is always the value null,
\* recorded by the orchestrator as a 'Could not download' error, never an
\* exception recorded as 'Error processing'; and every retrieval that failed
\* is recorded.
C18_DownloadNeverThrows ==
  instance = "ready" =>
    /\ \A j \in 1..Len(errors) :
         outcome[errors[j].doc] = "retrievalFailed" => errors[j].kind = "download"
    /\ \A d \in 1..MaxDocs :
         outcome[d] = "retrievalFailed" =>
           \E j \in 1..Len(errors) : errors[j].doc = d /\ errors[j].kind = "download"

\* a step of the first download threw after the viewer tab had opened (the tab
\* is still open), and a later download exhausted both strategies
C18_Witness ==
  /\ instance = "ready"
  /\ tabs > 0
  /\ Len(errors) >= 2
  /\ errors[1].kind = "download" /\ errors[2].kind = "download"
  /\ pc \in {"download", "overview"}

\* the validation the cascade is to apply: magic header present and size above the minimum
ValidBuffer(buf) == buf.head = "%PDF" /\ buf.len > MinPdfBytes

\* C19: the strategies are tried in one order (the source fetch, then the
\* download button, never backwards), a download returns a document only with
\* the buffer of a strategy that produced a valid one, and a strategy whose
\* buffer is invalid or undersized does not end the cascade by returning it.
C19_CascadeReturnsFirstValid ==
  [][/\ (pc = "download" /\ pc' \in {"dlSource", "dlButton"}) => pc' = "dlSource"
     /\ pc = "dlButton" => pc' # "dlSource"
     /\ (pc \in {"dlSource", "dlButton"} /\ pc' = "extract") => ValidBuffer(downloaded')
    ]_vars

\* requests that have an operation in flight on the session's page
OnPage == {r \in Runs : runs[r].pc \in PagePhases}
\* requests that have called getScraper
Acquired == {r \in Runs : runs[r].pc # "idle"}

\* C14: under any interleaving of concurrent getScraper calls at most one
\* browser is started, none is started before the first call, and no request
\* that was handed the session fails with 'Not initialized'.
C14_OneInitializedSession ==
  /\ browsers <= 1
  /\ Acquired = {} => browsers = 0 /\ instance = "null"
  /\ \A r \in Runs : runs[r].fault # "Not initialized"

\* C15: the session's page is never used by two requests at once: at most one
\* request has a navigation, enumeration or retrieval in flight on it.
C15_PageUsedByOneRun ==
  Cardinality(OnPage) <= 1

\* C12: in the DocumentSummary returned for any JSON value of the collaborator
\* every string field is a string, every list field is an array and
\* relevanceFlag is one of the three values.
C12_SummaryFieldsHaveDeclaredTypes ==
  pdfSummary.made =>
    /\ pdfSummary.strings.type = "string"
    /\ pdfSummary.lists.type = "array"
    /\ pdfSummary.relevanceFlag.type = "string"
    /\ pdfSummary.relevanceFlag.text \in RelevanceFlags

\* C20: when the digital pass counted more tokens longer than two characters
\* than the threshold, the extraction result has the digital method and the
\* text of the digital pass, and the OCR step was not entered: no temporary
\* directory, no worker, no confidence.  Such a text is also longer than the
\* character threshold that process-all applies in place of the word count.
C20_DigitalSkipsOcr ==
  (pdfPc \notin {"request", "fetch", "parse"} /\ extraction.words > NativeMinWords) =>
    /\ extraction.method = "native"
    /\ extraction.textLen = extraction.len
    /\ extraction.len > NativeMinLen
    /\ ~extraction.confidence
    /\ ocr = NoOcr
    /\ pdfPc \in {"summarize", "done"}
    /\ pdfResponse \in {0, 200}

C20_Witness ==
  /\ pdfPc = "done"
  /\ pdfResponse = 200
  /\ extraction.words = NativeMinWords + 1
  /\ extraction.method = "native"
  /\ ocr = NoOcr

\* the extraction succeeded: its text was accepted and handed to the summarizer
PdfAccepted == pdfPc = "summarize" \/ pdfResponse = 200
\* the request ended with an error response of the extraction
PdfRejected == pdfPc = "done" /\ pdfResponse \in {422, 500} /\ ~pdfSummary.made

\* C21: once the digital pass has found the text below the threshold, an
\* accepted extraction has the optical (or merged) method and a text of at
\* least the minimum length, and every request that is over without such a
\* result was answered with an error and summarized nothing.
C21_ScannedIsOpticalOrFails ==
  extraction.pass = "ocr" =>
    /\ pdfPc \in {"ocr", "summarize", "done"}
    /\ PdfAccepted =>
         /\ extraction.method \in {"ocr", "hybrid"}
         /\ extraction.textLen >= PdfMinTextLen
         /\ extraction.textLen = extraction.ocrLen
    /\ pdfPc = "done" => pdfResponse = 200 \/ PdfRejected
    /\ extraction.method = "none" => ~PdfAccepted

\* a digital text of exactly the threshold's word count went to OCR and was accepted
C21_Witness ==
  /\ extraction.pass = "ocr"
  /\ extraction.words = NativeMinWords
  /\ extraction.method = "ocr"
  /\ extraction.textLen >= PdfMinTextLen
  /\ pdfResponse = 200

\* C22: when the digital pass read some text, fewer words than the threshold,
\* and the OCR pass succeeded, the result has the merged method and its text
\* holds the digital text as well as the OCR text.
C22_SubThresholdTextIsMerged ==
  (extraction.pass = "ocr" /\ extraction.len > 0 /\ extraction.method # "none") =>
    /\ extraction.method = "hybrid"
    /\ extraction.textLen >= extraction.len + extraction.ocrLen

\* C23: when the digital pass found no text and the OCR pass recognized not a
\* single character on any page, the extraction fails: its text is not accepted
\* and no summary is requested.
C23_NothingRecoveredFails ==
  (extraction.pass = "ocr" /\ extraction.len = 0 /\ extraction.recovered = 0) => ~PdfAccepted

\* C24: an uploaded file without digital text whose OCR succeeded has the
\* optical method and a confidence score, and the handling of an upload leaves
\* the browser session alone: no scraper instance, no browser, no request on
\* the session's page, no search, enumeration or download.
C24_UploadIsOpticalWithoutSession ==
  /\ (upload.contentType = "multipart" /\ upload.file /\ extraction.pass = "ocr"
        /\ extraction.len = 0 /\ extraction.method # "none") =>
       /\ extraction.method = "ocr"
       /\ extraction.confidence
       /\ ocr.worker = "terminated"
  /\ pdfPc # "idle" =>
       /\ instance = "null"
       /\ browsers = 0
       /\ \A r \in Runs : runs[r] = IdleRun
       /\ NoRun

C24_Witness ==
  /\ upload.contentType = "multipart" /\ upload.file
  /\ extraction.len = 0
  /\ extraction.method = "ocr"
  /\ extraction.confidence
  /\ extraction.recovered > 0
  /\ pdfResponse = 200

\* number of non-white-space characters of a query of Queries
NonWhitespace(query) == CASE query = "" -> 0 [] query = "a" -> 1 [] OTHER -> 10

\* C25: a request whose query has fewer than two non-white-space characters and
\* that names no facility is answered 400 by POST: no stream is opened, the
\* session is not acquired and nothing is searched.
C25_ShortQueryRejected ==
  (request.bodyOk /\ request.facilityId = "" /\ NonWhitespace(request.query) < 2
     /\ pc # "request") =>
    /\ response = "400"
    /\ pc = "done"
    /\ channel = "none"
    /\ events = <<>>
    /\ facility = "none"

\* a process request that names neither a query nor a facility
NoTarget(req) == ~req.bodyOk \/ (req.query = "" /\ req.facilityId = "")

\* an upload request that carries neither a file nor a URL its handler reads
NoSource(up) ==
  /\ up.bodyOk
  /\ \/ up.contentType = "multipart" /\ ~up.file /\ ~up.url
     \/ up.contentType = "json" /\ ~up.url

\* C26: a process request without query and facility id (or whose body cannot
\* be read) is answered with an error status before a stream exists: no event,
\* no facility, no enumeration, no download, no summary.  An upload request
\* without file and URL is answered 400 before any byte is fetched, any text
\* extracted or any summary requested.  Neither touches the scraper instance.
C26_MissingInputRejected ==
  /\ (pc \notin {"idle", "request"} /\ NoTarget(request)) =>
       /\ pc = "done"
       /\ response = IF request.bodyOk THEN "400" ELSE "500"
       /\ channel = "none" /\ events = <<>> /\ ~crashed
       /\ facility = "none" /\ ~enumerated
       /\ \A d \in 1..MaxDocs : dlCalls[d] = 0
       /\ summaries = <<>> /\ errors = <<>>
  /\ (pdfPc \notin {"idle", "request"} /\ NoSource(upload)) =>
       /\ pdfPc = "done"
       /\ pdfResponse = 400
       /\ pdfBuffer = NoBuffer
       /\ extraction = NoExtraction /\ ocr = NoOcr
       /\ ~pdfSummary.made
  /\ (pc = "request" \/ pdfPc = "request") => browsers = 0 /\ \A r \in Runs : runs[r] = IdleRun

C26_Witness ==
  /\ request.bodyOk /\ NoTarget(request)
  /\ pc = "done"
  /\ response = "400"

\* downloadDocument has been called for descriptor d and has not returned
DownloadInFlight(d) == idx + 1 = d /\ pc \in {"download", "dlSource", "dlButton"}

\* C27 as stated: every run whose stream was opened eventually has emitted a
\* terminal event and closed the channel, and every call of downloadDocument
\* eventually returns.
C27_EveryRunEmitsTerminalEvent ==
  /\ (response = "stream") ~> (Terminals # {} /\ channel = "closed")
  /\ \A d \in 1..MaxDocs : DownloadInFlight(d) ~> ~DownloadInFlight(d)

\* C27 amended: every run whose stream was opened eventually ends, having
\* emitted a terminal event and closed the channel or, after the caller has
\* cancelled the channel, without either; and every call of downloadDocument
\* eventually returns.
C27_EveryRunEnds ==
  /\ (response = "stream") ~>
       (pc = "done" /\ ((Terminals # {} /\ channel = "closed") \/ EndedByCancel))
  /\ \A d \in 1..MaxDocs : DownloadInFlight(d) ~> ~DownloadInFlight(d)

\* every descriptor went through the whole cascade and the run closed its channel
C27_Witness ==
  /\ pc = "done"
  /\ channel = "closed"
  /\ Len(documents) = MaxLiveDocs
  /\ \A d \in 1..MaxLiveDocs : dlCalls[d] = 1 /\ outcome[d] = "retrievalFailed"
  /\ Terminals # {}

\* C28: once the caller has cancelled the channel no event is enqueued, no
\* retrieval starts other than the one in flight, and of the current document
\* at most the retrieval and the extraction complete: the run does not go on
\* to request its summary.
C28_CancelStopsTheRun ==
  [][channel = "cancelled" =>
       /\ events' = events
       /\ pc' = "download" => (pc = "download" /\ idx' = idx)
       /\ \A d \in 1..MaxDocs : dlCalls'[d] # dlCalls[d] => d = idx + 1
       /\ pc' = "summarize" => pc = "summarize"
    ]_vars

\* a summary or an error of descriptor d has been recorded
Recorded(d) == HasSummary(d) \/ HasError(d)
\* descriptors whose retrieval has started and that have nothing recorded yet
InProcess == {d \in 1..MaxDocs : dlCalls[d] > 0 /\ ~Recorded(d)}

\* C29: the retrieval of a descriptor has started only when every earlier
\* descriptor has its summary or its error recorded; at most one descriptor is
\* in retrieval, extraction or summarization, and it is the one of the loop
\* index.
C29_OneDocumentAtATime ==
  /\ \A d \in 1..MaxDocs : dlCalls[d] > 0 => \A e \in 1..(d - 1) : Recorded(e)
  /\ Cardinality(InProcess) <= 1
  /\ pc \in {"dlSource", "dlButton", "extract", "summarize"} => InProcess = {idx + 1}
  /\ pc \notin {"dlSource", "dlButton", "extract", "summarize"} => InProcess = {}

C29_Witness ==
  /\ pc = "summarize"
  /\ idx = 2
  /\ HasSummary(1)
  /\ HasError(2)
  /\ InProcess = {3}

\* the findings of the summaries flagged Relevant, each once
RelevantContaminants ==
  {c \in FoundContaminants :
     \E i \in 1..Len(summaries) :
       summaries[i].relevanceFlag = "Relevant" /\ c \in summaries[i].contaminantsOfConcern}
RelevantMedia ==
  {m \in FoundMedia :
     \E i \in 1..Len(summaries) :
       summaries[i].relevanceFlag = "Relevant" /\ m \in summaries[i].impactedMedia}

\* the overview is requested at most once, after every descriptor has its
\* summary or its error, with the findings of the Relevant summaries
OverviewRequestedOnceAtTheEnd ==
  /\ Len(overviewCalls) <= 1
  /\ overviewCalls # <<>> =>
       /\ pc = "done"
       /\ Len(documents) > 0
       /\ idx = Len(documents)
       /\ \A d \in 1..Len(documents) : Recorded(d)
       /\ overviewCalls[1].input.contaminants = RelevantContaminants
       /\ overviewCalls[1].input.media = RelevantMedia
       /\ overviewCalls[1].input.reviewed = Len(summaries)
  /\ (Successes # {} /\ Len(documents) > 0) => Len(overviewCalls) = 1

ErrorKinds == {"download", "notext", "exception"}

\* the error string errs[j] holds the declared type and the declared date of the
\* document it is about
NamesItsDocument(errs, j) ==
  /\ errs[j].doc \in 1..Len(documents)
  /\ errs[j].kind \in ErrorKinds
  /\ errs[j].type = documents[errs[j].doc].type
  /\ errs[j].date = documents[errs[j].doc].date

\* C31: every string of the errors list, and of the errors of a result that was
\* emitted, is one of the three failure messages and includes the declared type
\* and the declared date of the document that failed.
C31_ErrorsNameTheirDocument ==
  /\ \A j \in 1..Len(errors) : NamesItsDocument(errors, j)
  /\ \A i \in 1..Len(events) :
       "result" \in events[i].keys =>
         \A j \in 1..Len(events[i].result.errors) : NamesItsDocument(events[i].result.errors, j)

\* a run of three documents ended with a result whose errors list holds one
\* string of each of the three kinds
C31_Witness ==
  /\ pc = "done" /\ EndsWithSuccess
  /\ Len(events[Len(events)].result.errors) = 3
  /\ {events[Len(events)].result.errors[j].kind : j \in 1..3} = ErrorKinds
  /\ \E j \in 1..3 : events[Len(events)].result.errors[j].date = "Unknown"

\* C32: when the digital extraction (pdf-parse) has thrown, the OCR pass is
\* attempted: performOCR is the next step of the request or has been entered.
C32_NativeFailureFallsBackToOcr ==
  extraction.pass = "threw" => (pdfPc = "ocr" \/ ocr # NoOcr)

\* the fields of an IEPAScraper without a session: no browser, no context, no
\* page, not initialized
Uninitialized(s) == s.browser = 0 /\ ~s.context /\ ~s.page /\ ~s.isInitialized

\* the k-th finished call is a closeScraper that returned
ClosedAt(k) == client.calls[k].op = "close" /\ client.calls[k].ok

\* C33: a closeScraper that returned leaves scraperInstance null and the
\* instance it closed without browser, context and page and not initialized;
\* a closeScraper right after it changes nothing and returns; a getScraper that
\* returns right after it returns a new, initialized instance with a browser
\* that was launched for it.
C33_CloseDiscardsAndGetRecreates ==
  \A k \in 1..Len(client.calls) :
    ClosedAt(k) =>
      /\ ~client.calls[k].after.held
      /\ Uninitialized(client.calls[k].after)
      /\ k < Len(client.calls) =>
           LET next == client.calls[k + 1] IN
             /\ next.op = "close" => next.ok /\ next.after = client.calls[k].after
             /\ (next.op = "get" /\ next.ok) =>
                  /\ next.after.held
                  /\ next.after.isInitialized /\ next.after.page /\ next.after.context
                  /\ next.after.browser # 0
                  /\ next.after.browser \notin next.after.closed
                  /\ \A j \in 1..k : next.after.id # client.calls[j].after.id
                                        /\ next.after.browser # client.calls[j].before.browser

\* a session was acquired, closed, closed once more and acquired again
C33_Witness ==
  /\ Len(client.calls) = 4
  /\ client.calls[1].op = "get" /\ client.calls[1].ok
  /\ ClosedAt(2) /\ client.calls[2].before.browser = 1
  /\ ClosedAt(3)
  /\ client.calls[4].op = "get" /\ client.calls[4].ok /\ scraper.browser = 2

\* the search of this run returned an empty list
SearchFoundNothing == emptySearch

\* nothing of the enumeration, the retrieval, the extraction and the
\* summarization has happened
NothingProcessed ==
  /\ ~enumerated /\ documents = <<>>
  /\ \A d \in 1..MaxDocs : dlCalls[d] = 0 /\ outcome[d] = "pending"
  /\ summaries = <<>> /\ errors = <<>> /\ overviewCalls = <<>>
  /\ viewer = "none" /\ tabs = 0

\* C34 as stated: when searchFacilities has returned an empty list the run has
\* ended with exactly one terminal event and a closed channel, and neither
\* enumeration nor retrieval, extraction or summarization was invoked.
C34_EmptySearchEndsTheRun ==
  SearchFoundNothing =>
    /\ pc = "done"
    /\ Cardinality(Terminals) = 1 /\ channel = "closed"
    /\ NothingProcessed

\* C34 amended: the same, unless the caller has cancelled the channel; then
\* the run has ended without a terminal event, and nothing was invoked either.
C34_EmptySearchEndsTheRunUnlessCancelled ==
  SearchFoundNothing =>
    /\ pc = "done"
    /\ NothingProcessed
    /\ \/ /\ channel = "closed" /\ ~crashed
          /\ Terminals = {Len(events)}
          /\ events[Len(events)].stage = "error"
       \/ EndedByCancel /\ Terminals = {}

\* a search that returned an empty list on an open channel
C34_Witness ==
  /\ SearchFoundNothing
  /\ channel = "closed"
  /\ Len(events) = 2 /\ events[1].stage = "search" /\ events[2].stage = "error"

\* the PDF of the request is fetched from the URL the caller supplied: the url
\* field of a form without a file, or the url property of a JSON body
FromCallerUrl ==
  /\ upload.bodyOk /\ upload.url
  /\ \/ upload.contentType = "multipart" /\ ~upload.file
     \/ upload.contentType = "json"

\* C35: a payload fetched from the caller's URL that does not begin with %PDF
\* is answered with 400 and is never handed to the text extraction, on the
\* multipart path and on the JSON path.
C35_UrlPayloadWithoutHeaderRejected ==
  (FromCallerUrl /\ pdfBuffer # NoBuffer /\ pdfBuffer.head # "%PDF") =>
    /\ pdfPc = "done" /\ pdfResponse = 400
    /\ extraction = NoExtraction /\ ocr = NoOcr /\ ~pdfSummary.made

\* the events that carry latestSummary, in the order of their emission
WithLatestSummary(evs) == SelectSeq(evs, LAMBDA e : "latestSummary" \in e.keys)

\* the latestSummary payloads of the events evs, in the order of their emission
LatestSummaries(evs) ==
  [k \in 1..Len(WithLatestSummary(evs)) |-> WithLatestSummary(evs)[k].latestSummary]

\* C36: at every moment of a run the latestSummary payloads emitted so far are
\* the summaries recorded so far, one per document that yielded a summary and
\* in the same order (so each is emitted before the next descriptor is taken
\* up, and a document without a summary has none), and a terminal result
\* carries that same list.
C36_LatestSummariesAreTheSummaries ==
  /\ LatestSummaries(events) = summaries
  /\ \A d \in 1..MaxDocs :
       Cardinality({i \in 1..Len(events) : /\ "latestSummary" \in events[i].keys
                                            /\ events[i].latestSummary.doc = d})
         = IF HasSummary(d) THEN 1 ELSE 0
  /\ \A i \in Successes : events[i].result.summaries = LatestSummaries(events)

\* the place of a stage tag in the order of a run; a failure comes last
StageRank(stage) ==
  CASE stage = "search" -> 1
    [] stage = "documents" -> 2
    [] stage = "processing" -> 3
    [] stage = "overview" -> 4
    [] stage = "complete" -> 5
    [] stage = "error" -> 6

AtStage(stage) == {i \in 1..Len(events) : events[i].stage = stage}

\* the stage tags emitted so far follow the order search, documents,
\* processing, overview, complete; a terminal event is the last event; a
\* processing event comes after the documents event that reports the count;
\* at most one overview event is emitted
StagesInOrder ==
  /\ \A i, j \in 1..Len(events) :
       i < j => StageRank(events[i].stage) <= StageRank(events[j].stage)
  /\ \A i \in Terminals : i = Len(events)
  /\ \A i \in AtStage("processing") :
       \E j \in AtStage("documents") : j < i /\ "count" \in events[j].keys
  /\ Cardinality(AtStage("overview")) <= 1

\* before the complete event at i exactly one overview event was emitted, after
\* the processing events of every document, the last one included
OverviewBeforeComplete(i) ==
  /\ Cardinality(AtStage("overview")) = 1
  /\ \A o \in AtStage("overview") :
       /\ o < i
       /\ \A p \in AtStage("processing") : p < o
       /\ \E p \in AtStage("processing") :
            "current" \in events[p].keys /\ events[p].progress = 100

\* C37 as stated: the stage tags are emitted in order, and a complete event is
\* preceded by exactly one overview event that follows the last document's
\* processing events.
C37_StagesInOrderOverviewOnce ==
  /\ StagesInOrder
  /\ \A i \in Successes : OverviewBeforeComplete(i)

\* C37 amended: the same for a run that enumerated documents; a run that
\* enumerated none emits complete right after the documents event that reports
\* the count, without processing and overview events.
C37_StagesInOrderOverviewOnceWithDocuments ==
  /\ StagesInOrder
  /\ \A i \in Successes :
       IF documents # <<>>
       THEN OverviewBeforeComplete(i)
       ELSE /\ AtStage("overview") = {} /\ AtStage("processing") = {}
            /\ i > 1 /\ events[i - 1].stage = "documents" /\ "count" \in events[i - 1].keys

\* a run by query over two documents, the first summarized, that ended with
\* the complete event
C37_Witness ==
  /\ pc = "done" /\ EndsWithSuccess
  /\ Len(documents) = 2 /\ HasSummary(1)
  /\ Cardinality(AtStage("search")) = 2
  /\ Cardinality(AtStage("documents")) = 2
  /\ Cardinality(AtStage("processing")) >= 3
  /\ AtStage("overview") = {Len(events) - 1}

\* C38: no retrieval closes the session's main page, whether it returns a
\* document or null and whether the viewer opened in a tab or in the main page.
C38_MainPageStaysOpen == ~pageClosed

\* after a failed and a successful retrieval that left no tab open, the next
\* downloadDocument is about to be called on the session's page
C38_Witness ==
  /\ pc = "download" /\ idx = 2 /\ instance = "ready"
  /\ outcome[1] = "retrievalFailed" /\ outcome[2] = "ok"
  /\ tabs = 0 /\ ~pageClosed

\* C39: once performOCR has returned or thrown, the temporary directory it
\* made has been removed and the OCR worker it created has been terminated.
C39_OcrReleasesWhatItAcquired ==
  (pdfPc # "ocr" /\ ocr # NoOcr) =>
    /\ ocr.tempDir # "exists"
    /\ ocr.worker # "running"

====
